---- MODULE Spec2Model ----
(***************************************************************************)
(* The layered-stack container view of xilem (xilem/src/view/zstack.rs):   *)
(* Stack<Seq> (build / rebuild / teardown / message) and the StackSplice   *)
(* that applies a sequence diff to the children of a masonry ZStack.       *)
(*                                                                         *)
(* A view sequence is a tuple of NSlots optional views: seq[s] is Absent   *)
(* when slot s holds no view, otherwise the widget type the view builds.   *)
(* An element is a record [id, shape, slot]: shape is the concrete widget  *)
(* type W it was built as, slot the position of the view that built it,    *)
(* and id its identity during a pass: its place (from 1) in the child list *)
(* when the pass started, or the next free number if the pass built it.    *)
(***************************************************************************)
EXTENDS Naturals, Sequences, FiniteSets, TLC

VARIABLES
    phase,      \* "new" | "idle" | "rebuild" | "teardown" | "gone" | "splice"
    panicked,   \* the running operation panicked: nothing runs after it
    scenario,   \* how far the run followed [A, B, C] -> [A, C] -> [A, D, C]
    seq,        \* Stack::sequence of the view the element tree currently reflects
    next,       \* Stack::sequence of the view being applied by rebuild
    pos,        \* slot that seq_rebuild / seq_teardown visits next
    children,   \* widget::ZStack children, bottom first (StackSplice::element)
    idx,        \* StackSplice::idx
    scratch,    \* StackSplice::scratch
    ret,        \* value returned by the last splice operation
    log,        \* events of the current pass (of the last operation, under SpliceSpec)
    last,       \* the last splice operation and the splice as it was called
    before,     \* children when the current pass started
    nops,       \* operations issued on a free splice so far
    view_state, \* Stack::ViewState = Seq::SeqState: the state of each slot's view
    app_state,  \* the application state handed to message
    msg         \* the last call of Stack::message and what came of it

vars == <<phase, panicked, scenario, seq, next, pos, children, idx, scratch, ret, log,
          last, before, nops, view_state, app_state, msg>>

----------------------------------------------------------------------------
\* Bounds of the model.

NSlots == 3         \* positions of the view sequence
MaxLen == 3         \* children of the container a free splice starts on
MaxOps == 2         \* operations issued on a free splice
MaxScratch == 2     \* elements a with_scratch callback appends
MaxSkip == 2        \* largest n passed to skip

Slots == 1..NSlots
Shapes == {"Label", "Button"}   \* concrete widget types W of Pod<W>
Absent == "none"
Seqs == [Slots -> Shapes \cup {Absent}]
Results == {7, 8}   \* values a callback hands back

None == [id |-> 0, shape |-> Absent, slot |-> 0]
Elem(i, w, s) == [id |-> i, shape |-> w, slot |-> s]
Ev(e, i, el, s) == [ev |-> e, idx |-> i, elem |-> el, slot |-> s]
NoOp == [op |-> "none", idx |-> 0, children |-> <<>>, scratch |-> <<>>,
         added |-> <<>>, res |-> 0, kind |-> "none", W |-> Absent]

Ids(s) == {s[i].id : i \in 1..Len(s)}
Range(f) == {f[x] : x \in DOMAIN f}

\* The identity of a newly created widget: one no live or remembered element has.
FreshId(used) == CHOOSE n \in 1..(Cardinality(used) + 1) :
                    /\ n \notin used
                    /\ \A m \in 1..(n - 1) : m \in used

----------------------------------------------------------------------------
\* The retained container, widget::ZStack.

child_mut(ch, i) == IF i < Len(ch) THEN ch[i + 1] ELSE None

with_child_pod(ch, pod) == Append(ch, pod)

\* Called as insert_child_pod(&mut self.element, pod): no index is passed.
insert_child_pod(ch, pod) == Append(ch, pod)

remove_child(ch, i) == SubSeq(ch, 1, i) \o SubSeq(ch, i + 2, Len(ch))

----------------------------------------------------------------------------
\* SuperElement::with_downcast_val, run on the cursor ZStackElementMut {parent, idx}.
\* f = [kind, W, what, slot, res]: the callback and the widget type it expects.

Pod_with_downcast_val(parent, i, f) ==
    LET child == child_mut(parent, i) IN
    IF child = None
    THEN [panic |-> TRUE, events |-> <<Ev("panic", i, 0, f.slot)>>]
    ELSE IF child.shape # f.W
    THEN [panic |-> TRUE, events |-> <<Ev("panic", i, child.id, f.slot)>>]
    ELSE [panic |-> FALSE, events |-> <<Ev(f.what, i, child.id, f.slot)>>]

ZStackElement_with_downcast_val(parent, i, f) ==
    [panic |-> FALSE, events |-> <<Ev("reborrow", i, 0, f.slot)>>]

\* f(child) with a cursor that outlives the call.
Call_keeping(parent, i, f) ==
    LET r == IF f.kind = "Pod" THEN Pod_with_downcast_val(parent, i, f)
                               ELSE ZStackElement_with_downcast_val(parent, i, f)
    IN [panic |-> r.panic,
        events |-> <<Ev("grant", i, child_mut(parent, i).id, f.slot)>> \o r.events]

\* f(child): the cursor is granted, the callback downcasts and runs, the cursor
\* is given back.
Call(parent, i, f) ==
    LET r == IF f.kind = "Pod" THEN Pod_with_downcast_val(parent, i, f)
                               ELSE ZStackElement_with_downcast_val(parent, i, f)
    IN [panic |-> r.panic,
        events |-> <<Ev("grant", i, child_mut(parent, i).id, f.slot)>> \o r.events
                   \o (IF r.panic THEN <<>> ELSE <<Ev("release", i, 0, f.slot)>>)]

----------------------------------------------------------------------------
\* StackSplice.  self = [idx, element, scratch]; each operation gives the splice
\* afterwards, the events it caused, whether it panicked and what it returned.

StackSplice_new(element) == [idx |-> 0, element |-> element, scratch |-> <<>>]

Out(i, el, sc, evs, p, r) ==
    [idx |-> i, element |-> el, scratch |-> sc, events |-> evs, panic |-> p, ret |-> r]

\* A loop over the scratch list that inserts its elements and leaves them there.
RECURSIVE drain_keeping(_, _, _, _)
drain_keeping(sc, el, i, evs) ==
    IF sc = <<>>
    THEN [idx |-> i, element |-> el, scratch |-> sc, events |-> evs]
    ELSE LET d == drain_keeping(Tail(sc), insert_child_pod(el, Head(sc)), i + 1,
                                Append(evs, Ev("insert_child", i, Head(sc).id, 0)))
         IN [d EXCEPT !.scratch = <<Head(sc)>> \o d.scratch]

\* A loop over the scratch list that inserts its elements and leaves the index.
RECURSIVE drain_in_place(_, _, _, _)
drain_in_place(sc, el, i, evs) ==
    IF sc = <<>>
    THEN [idx |-> i, element |-> el, scratch |-> sc, events |-> evs]
    ELSE drain_in_place(Tail(sc), insert_child_pod(el, Head(sc)), i,
                        Append(evs, Ev("insert_child", i, Head(sc).id, 0)))

RECURSIVE drain(_, _, _, _)
drain(sc, el, i, evs) ==
    IF sc = <<>>
    THEN [idx |-> i, element |-> el, scratch |-> sc, events |-> evs]
    ELSE drain(Tail(sc), insert_child_pod(el, Head(sc)), i + 1,
               Append(evs, Ev("insert_child", i, Head(sc).id, 0)))

\* f = [adds, res, slot]: the callback appends adds to the scratch list.
with_scratch(self, f) ==
    LET filled == self.scratch \o f.adds
        d == drain(filled, self.element, self.idx,
                   [k \in 1..Len(f.adds) |-> Ev("push_scratch", self.idx, f.adds[k].id, 0)])
    IN Out(d.idx, d.element, d.scratch,
           <<Ev("with_scratch", self.idx, 0, f.slot)>> \o d.events, FALSE, f.res)

insert(self, element) ==
    Out(self.idx + 1, insert_child_pod(self.element, element), self.scratch,
        <<Ev("insert", self.idx, element.id, 0),
          Ev("insert_child", self.idx, element.id, 0)>>, FALSE, 0)

\* mutate with the index advanced before the cursor is made.
mutate_early(self, f) ==
    LET c == Call(self.element, self.idx + 1, f)
        evs == <<Ev("mutate", self.idx, 0, f.slot)>> \o c.events
    IN IF c.panic
       THEN Out(self.idx, self.element, self.scratch, evs, TRUE, 0)
       ELSE Out(self.idx + 1, self.element, self.scratch, evs, FALSE, f.res)

mutate(self, f) ==
    LET c == Call(self.element, self.idx, f)
        evs == <<Ev("mutate", self.idx, 0, f.slot)>> \o c.events
    IN IF c.panic
       THEN Out(self.idx, self.element, self.scratch, evs, TRUE, 0)
       ELSE Out(self.idx + 1, self.element, self.scratch, evs, FALSE, f.res)

\* skip that moves the index to n instead of advancing it by n.
skip_to(self, n) ==
    Out(n, self.element, self.scratch,
        <<Ev("skip", self.idx, 0, 0)>>, FALSE, 0)

\* skip that hands out a cursor on the child it starts from.
skip_visiting(self, n) ==
    Out(self.idx + n, self.element, self.scratch,
        <<Ev("skip", self.idx, 0, 0),
          Ev("grant", self.idx, child_mut(self.element, self.idx).id, 0),
          Ev("release", self.idx, 0, 0)>>, FALSE, 0)

skip(self, n) ==
    Out(self.idx + n, self.element, self.scratch,
        <<Ev("skip", self.idx, 0, 0)>>, FALSE, 0)

\* delete that advances the index like mutate does.
delete_advancing(self, f) ==
    LET c == Call(self.element, self.idx, f)
        evs == <<Ev("delete", self.idx, 0, f.slot)>> \o c.events
    IN IF c.panic
       THEN Out(self.idx, self.element, self.scratch, evs, TRUE, 0)
       ELSE IF self.idx >= Len(self.element)
       THEN Out(self.idx, self.element, self.scratch,
                Append(evs, Ev("panic", self.idx, 0, f.slot)), TRUE, 0)
       ELSE Out(self.idx + 1, remove_child(self.element, self.idx), self.scratch,
                Append(evs, Ev("remove_child", self.idx,
                               child_mut(self.element, self.idx).id, f.slot)),
                FALSE, f.res)

delete(self, f) ==
    LET c == Call(self.element, self.idx, f)
        evs == <<Ev("delete", self.idx, 0, f.slot)>> \o c.events
    IN IF c.panic
       THEN Out(self.idx, self.element, self.scratch, evs, TRUE, 0)
       ELSE IF self.idx >= Len(self.element)
       THEN Out(self.idx, self.element, self.scratch,
                Append(evs, Ev("panic", self.idx, 0, f.slot)), TRUE, 0)
       ELSE Out(self.idx, remove_child(self.element, self.idx), self.scratch,
                Append(evs, Ev("remove_child", self.idx,
                               child_mut(self.element, self.idx).id, f.slot)),
                FALSE, f.res)

----------------------------------------------------------------------------
\* View states and messages.  The state of a slot's view holds the id the slot
\* was given when its view was built; a path segment is [slot, id], its id
\* "live" when it is the one the slot holds now and "released" when it was
\* given to a view that has since been removed or replaced.

Payloads == {"click", "key"}
Stale == [kind |-> "Stale", payload |-> "none"]
Action(m) == [kind |-> "Action", payload |-> m]

NoState == [id |-> "none", W |-> Absent, handled |-> FALSE]
Built(w) == [id |-> "live", W |-> w, handled |-> FALSE]
NoMsg == [id_path |-> <<>>, message |-> "none", result |-> Stale, delivered |-> <<>>]

Segments == [slot : Slots, id : {"live", "released"}]
IdPaths == {<<g>> \o rest : g \in Segments,
                           rest \in {<<>>, <<[slot |-> 1, id |-> "live"]>>}}

\* The SeqState that seq_build returns.
seq_build_state(sq) ==
    [s \in Slots |-> IF sq[s] = Absent THEN NoState ELSE Built(sq[s])]

\* View::message of a view without children: the target when the path is used up.
View_message(state, id_path, message, app) ==
    IF id_path = <<>>
    THEN [state |-> [state EXCEPT !.handled = TRUE], app |-> message,
          result |-> Action(message)]
    ELSE [state |-> state, app |-> app, result |-> Stale]

\* ViewSequence::seq_message: the first segment picks the slot, the rest of the
\* path goes to the slot's view and the result comes back as it is.
seq_message(state, id_path, message, app) ==
    LET g == Head(id_path)
    IN IF g.slot \in Slots /\ state[g.slot] # NoState /\ state[g.slot].id = g.id
       THEN LET r == View_message(state[g.slot], Tail(id_path), message, app)
            IN [view_state |-> [state EXCEPT ![g.slot] = r.state],
                app_state |-> r.app,
                result |-> r.result,
                delivered |-> <<[slot |-> g.slot, id_path |-> Tail(id_path),
                                 message |-> message, app |-> app,
                                 result |-> r.result]>>]
       ELSE [view_state |-> state, app_state |-> app, result |-> Stale,
             delivered |-> <<>>]

\* message that reports every message as not handled.
message_swallowing(state, id_path, message, app) ==
    [seq_message(state, id_path, message, app) EXCEPT !.result = Stale]

\* message that notes the payload in the application state before forwarding.
message_marking(state, id_path, message, app) ==
    [seq_message(state, id_path, message, app) EXCEPT !.app_state = message]

\* Stack::message
Stack_message(state, id_path, message, app) ==
    seq_message(state, id_path, message, app)

----------------------------------------------------------------------------
Self == [idx |-> idx, element |-> children, scratch |-> scratch]

\* kind and W: the element type the callback takes and, for Pod<W>, the widget.
Called(op, added, res, kind, W) ==
    [op |-> op, idx |-> idx, children |-> children, scratch |-> scratch,
     added |-> added, res |-> res, kind |-> kind, W |-> W]

\* Identities a new widget cannot have: those of the elements alive now, at the
\* start of the pass or before the last operation.
Known == Ids(children) \cup Ids(before) \cup Ids(last.children)

\* The splice after an operation becomes the state.
Becomes(r) ==
    /\ idx' = r.idx
    /\ children' = r.element
    /\ scratch' = r.scratch
    /\ ret' = r.ret

----------------------------------------------------------------------------
\* A splice driven freely: any operation, in any order, on any container.

Callbacks == [kind : {"Pod", "ZStackElement"}, W : Shapes, what : {"access"},
              slot : {0}, res : Results]

RECURSIVE NewElems(_, _)
NewElems(ws, used) ==
    IF ws = <<>> THEN <<>>
    ELSE LET i == FreshId(used)
         IN <<Elem(i, Head(ws), 0)>> \o NewElems(Tail(ws), used \cup {i})

ShapeLists(n) == UNION {[1..k -> Shapes] : k \in 0..n}

SpliceInit ==
    /\ phase = "splice"
    /\ panicked = FALSE
    /\ scenario = 0
    /\ seq = [s \in Slots |-> Absent]
    /\ next = [s \in Slots |-> Absent]
    /\ pos = 0
    /\ \E ws \in ShapeLists(MaxLen) : children = NewElems(ws, {})
    /\ idx = 0
    /\ scratch = <<>>
    /\ ret = 0
    /\ log = <<>>
    /\ last = NoOp
    /\ before = children
    /\ nops = 0
    /\ view_state = [s \in Slots |-> NoState]
    /\ app_state = "init"
    /\ msg = NoMsg

SpliceStep(r, called) ==
    /\ phase = "splice" /\ ~panicked
    /\ nops < MaxOps
    /\ Becomes(r)
    /\ log' = r.events
    /\ last' = called
    /\ panicked' = r.panic
    /\ nops' = nops + 1
    /\ UNCHANGED <<phase, scenario, seq, next, pos, before, view_state, app_state,
                   msg>>

SpInsert ==
    \E w \in Shapes :
        LET e == Elem(FreshId(Known), w, 0)
        IN SpliceStep(insert(Self, e), Called("insert", <<e>>, 0, "none", Absent))

SpWithScratch ==
    \E ws \in ShapeLists(MaxScratch), res \in Results :
        LET f == [adds |-> NewElems(ws, Known), res |-> res, slot |-> 0]
        IN SpliceStep(with_scratch(Self, f),
                      Called("with_scratch", f.adds, res, "none", Absent))

SpMutate ==
    \E f \in Callbacks :
        SpliceStep(mutate(Self, f), Called("mutate", <<>>, f.res, f.kind, f.W))

SpSkip ==
    \E n \in 0..MaxSkip :
        SpliceStep(skip(Self, n), Called("skip", <<>>, n, "none", Absent))

SpDelete ==
    \E f \in Callbacks :
        SpliceStep(delete(Self, f), Called("delete", <<>>, f.res, f.kind, f.W))

SpliceNext == SpInsert \/ SpWithScratch \/ SpMutate \/ SpSkip \/ SpDelete

SpliceSpec == SpliceInit /\ [][SpliceNext]_vars

----------------------------------------------------------------------------
\* ViewSequence over the slots (xilem_core), each present slot one view that
\* builds a Pod<W>, upcast to a ZStackElement.

RECURSIVE seq_build(_, _, _)
seq_build(sq, s, used) ==
    IF s > NSlots THEN <<>>
    ELSE IF sq[s] = Absent THEN seq_build(sq, s + 1, used)
    ELSE LET i == FreshId(used)
         IN <<Elem(i, sq[s], s)>> \o seq_build(sq, s + 1, used \cup {i})

\* A loop that puts each element under the ones added before it.
RECURSIVE with_child_pods_under(_, _)
with_child_pods_under(ch, els) ==
    IF els = <<>> THEN ch
    ELSE with_child_pods_under(<<Head(els)>> \o ch, Tail(els))

RECURSIVE with_child_pods(_, _)
with_child_pods(ch, els) ==
    IF els = <<>> THEN ch
    ELSE with_child_pods(with_child_pod(ch, Head(els)), Tail(els))

\* The children as a pass finds them: each known by its place in the list.
Live(ch) == [k \in 1..Len(ch) |-> [ch[k] EXCEPT !.id = k]]

\* The callbacks seq_rebuild and seq_teardown hand to the splice for slot s.
RebuildF(s) == [kind |-> "Pod", W |-> next[s], what |-> "rebuild", slot |-> s, res |-> 0]
TeardownF(s) == [kind |-> "Pod", W |-> seq[s], what |-> "teardown", slot |-> s, res |-> 0]
BuildF(s) == [adds |-> <<Elem(FreshId(Known), next[s], s)>>, res |-> 0, slot |-> s]

\* The state of slot s's view once seq_rebuild or seq_teardown has passed it.
seq_state_after(s) ==
    IF phase = "teardown" \/ next[s] = Absent THEN NoState
    ELSE IF next[s] = seq[s] THEN view_state[s]
    ELSE Built(next[s])

Init ==
    /\ phase = "new"
    /\ panicked = FALSE
    /\ scenario = 0
    /\ seq \in Seqs
    /\ next = seq
    /\ pos = 0
    /\ children = <<>>
    /\ idx = 0
    /\ scratch = <<>>
    /\ ret = 0
    /\ log = <<>>
    /\ last = NoOp
    /\ before = <<>>
    /\ nops = 0
    /\ view_state = [s \in Slots |-> NoState]
    /\ app_state = "init"
    /\ msg = NoMsg

\* Stack::build
Build ==
    /\ phase = "new"
    /\ LET elements == seq_build(seq, 1, {}) IN
        /\ children' = with_child_pods(<<>>, elements)
        /\ log' = [k \in 1..Len(elements) |->
                     Ev("build", k - 1, elements[k].id, elements[k].slot)]
    /\ phase' = "idle"
    /\ scenario' = IF \A s \in Slots : seq[s] # Absent <=> s \in 1..3 THEN 1 ELSE 0
    /\ view_state' = seq_build_state(seq)
    /\ UNCHANGED <<panicked, seq, next, pos, idx, scratch, ret, last, before, nops,
                   app_state, msg>>

\* Stack::rebuild: the splice is created, then seq_rebuild walks the slots.
StartRebuild ==
    /\ phase = "idle"
    /\ \E n \in Seqs :
        /\ next' = n
        /\ scenario' = IF scenario = 1 /\ n = [seq EXCEPT ![2] = Absent] THEN 2
                        ELSE IF scenario = 2 /\ n[2] # Absent
                                /\ n = [seq EXCEPT ![2] = n[2]] THEN 3
                        ELSE 0
    /\ phase' = "rebuild"
    /\ pos' = 1
    /\ Becomes(StackSplice_new(Live(children)) @@ [ret |-> 0])
    /\ log' = <<>>
    /\ last' = NoOp
    /\ before' = Live(children)
    /\ UNCHANGED <<panicked, seq, nops, view_state, app_state, msg>>

PassStep(r, called) ==
    /\ Becomes(r)
    /\ log' = log \o r.events
    /\ last' = called
    /\ panicked' = r.panic
    /\ pos' = IF r.panic THEN pos ELSE pos + 1
    /\ view_state' = IF r.panic THEN view_state
                     ELSE [view_state EXCEPT ![pos] = seq_state_after(pos)]
    /\ UNCHANGED <<phase, scenario, seq, next, before, nops, app_state, msg>>

\* Same shape at the slot: mutate, then the view's rebuild.
SeqRebuildSame ==
    /\ phase = "rebuild" /\ ~panicked /\ pos \in Slots
    /\ seq[pos] # Absent /\ next[pos] = seq[pos]
    /\ PassStep(mutate(Self, RebuildF(pos)),
                Called("mutate", <<>>, 0, "Pod", next[pos]))

\* In the new sequence only: the view is built into the scratch list.
SeqRebuildInsert ==
    /\ phase = "rebuild" /\ ~panicked /\ pos \in Slots
    /\ seq[pos] = Absent /\ next[pos] # Absent
    /\ LET f == BuildF(pos)
       IN PassStep(with_scratch(Self, f), Called("with_scratch", f.adds, 0, "none", Absent))

\* In the old sequence only: delete, the view's teardown running in it.
SeqRebuildRemove ==
    /\ phase = "rebuild" /\ ~panicked /\ pos \in Slots
    /\ seq[pos] # Absent /\ next[pos] = Absent
    /\ PassStep(delete(Self, TeardownF(pos)),
                Called("delete", <<>>, 0, "Pod", seq[pos]))

\* Another shape at the slot: the old element is torn down, a new one built.
SeqRebuildReplace ==
    /\ phase = "rebuild" /\ ~panicked /\ pos \in Slots
    /\ seq[pos] # Absent /\ next[pos] # Absent /\ next[pos] # seq[pos]
    /\ LET d == delete(Self, TeardownF(pos))
           f == BuildF(pos)
           w == with_scratch(d, f)
       IN IF d.panic
          THEN PassStep(d, Called("delete", <<>>, 0, "Pod", seq[pos]))
          ELSE PassStep([w EXCEPT !.events = d.events \o w.events],
                        [Called("with_scratch", f.adds, 0, "none", Absent)
                            EXCEPT !.idx = d.idx, !.children = d.element])

\* No view at the slot, before or after.
SeqRebuildNone ==
    /\ phase = "rebuild" /\ ~panicked /\ pos \in Slots
    /\ seq[pos] = Absent /\ next[pos] = Absent
    /\ pos' = pos + 1
    /\ UNCHANGED <<phase, panicked, scenario, seq, next, children, idx, scratch, ret,
                   log, last, before, nops, view_state, app_state, msg>>

\* seq_rebuild has returned: debug_assert!(splice.scratch.is_empty()).
EndRebuild ==
    /\ phase = "rebuild" /\ ~panicked /\ pos = NSlots + 1
    /\ panicked' = (scratch # <<>>)
    /\ phase' = IF scratch = <<>> THEN "idle" ELSE phase
    /\ seq' = IF scratch = <<>> THEN next ELSE seq
    /\ UNCHANGED <<scenario, next, pos, children, idx, scratch, ret, log, last, before,
                   nops, view_state, app_state, msg>>

\* Stack::teardown: the splice is created, then seq_teardown walks the slots.
StartTeardown ==
    /\ phase = "idle"
    /\ phase' = "teardown"
    /\ pos' = 1
    /\ Becomes(StackSplice_new(Live(children)) @@ [ret |-> 0])
    /\ log' = <<>>
    /\ last' = NoOp
    /\ before' = Live(children)
    /\ scenario' = 0
    /\ UNCHANGED <<panicked, seq, next, nops, view_state, app_state, msg>>

SeqTeardownChild ==
    /\ phase = "teardown" /\ ~panicked /\ pos \in Slots
    /\ seq[pos] # Absent
    /\ PassStep(delete(Self, TeardownF(pos)),
                Called("delete", <<>>, 0, "Pod", seq[pos]))

SeqTeardownNone ==
    /\ phase = "teardown" /\ ~panicked /\ pos \in Slots
    /\ seq[pos] = Absent
    /\ pos' = pos + 1
    /\ UNCHANGED <<phase, panicked, scenario, seq, next, children, idx, scratch, ret,
                   log, last, before, nops, view_state, app_state, msg>>

\* seq_teardown has returned: debug_assert!(splice.scratch.into_inner().is_empty()).
EndTeardown ==
    /\ phase = "teardown" /\ ~panicked /\ pos = NSlots + 1
    /\ panicked' = (scratch # <<>>)
    /\ phase' = IF scratch = <<>> THEN "gone" ELSE phase
    /\ UNCHANGED <<scenario, seq, next, pos, children, idx, scratch, ret, log, last,
                   before, nops, view_state, app_state, msg>>

Next ==
    \/ Build
    \/ StartRebuild
    \/ SeqRebuildSame
    \/ SeqRebuildInsert
    \/ SeqRebuildRemove
    \/ SeqRebuildReplace
    \/ SeqRebuildNone
    \/ EndRebuild
    \/ StartTeardown
    \/ SeqTeardownChild
    \/ SeqTeardownNone
    \/ EndTeardown

Spec == Init /\ [][Next]_vars

----------------------------------------------------------------------------
\* Messages to a built stack.

Message ==
    /\ phase = "idle" /\ ~panicked
    /\ \E id_path \in IdPaths, message \in Payloads :
        LET r == Stack_message(view_state, id_path, message, app_state)
        IN /\ view_state' = r.view_state
           /\ app_state' = r.app_state
           /\ msg' = [id_path |-> id_path, message |-> message,
                      result |-> r.result, delivered |-> r.delivered]
    /\ UNCHANGED <<phase, panicked, scenario, seq, next, pos, children, idx, scratch,
                   ret, log, last, before, nops>>

MsgNext == Build \/ Message

MsgSpec == Init /\ [][MsgNext]_vars

----------------------------------------------------------------------------
\* Vocabulary of the properties.

InsertAt(L, i, e) == SubSeq(L, 1, i) \o <<e>> \o SubSeq(L, i + 1, Len(L))
SpliceIn(L, i, es) == SubSeq(L, 1, i) \o es \o SubSeq(L, i + 1, Len(L))
RemoveAt(L, i) == SubSeq(L, 1, i) \o SubSeq(L, i + 2, Len(L))

Where(e) == {k \in 1..Len(log) : log[k].ev = e}
Count(e) == Cardinality(Where(e))

\* Index (from 0) of slot s among the views present in sq.
Rank(sq, s) == Cardinality({r \in 1..(s - 1) : sq[r] # Absent})
Present(sq) == {s \in Slots : sq[s] # Absent}

RebuildDone == phase = "rebuild" /\ ~panicked /\ pos = NSlots + 1
TeardownDone == phase = "teardown" /\ ~panicked /\ pos = NSlots + 1

----------------------------------------------------------------------------
\* C1: in the scenario build [A, B, C], rebuild to [A, C], rebuild to [A, D, C],
\* neither rebuild panics; the first issues exactly one delete, which runs B's
\* teardown on eB, and leaves [eA, eC] with an empty scratch buffer; the second
\* issues exactly one insertion, of D's new element, and leaves [eA, eD, eC].
C1_Scenario ==
    /\ scenario \in {2, 3} => ~panicked
    /\ (scenario = 2 /\ RebuildDone) =>
          /\ Count("delete") = 1
          /\ \E k \in Where("teardown") : log[k].slot = 2 /\ log[k].elem = before[2].id
          /\ children = <<before[1], before[3]>>
          /\ scratch = <<>>
    /\ (scenario = 3 /\ RebuildDone) =>
          /\ Count("insert_child") = 1
          /\ Len(children) = 3
          /\ children[1] = before[1]
          /\ children[3] = before[2]
          /\ children[2].slot = 2 /\ children[2].id \notin Ids(before)

\* C2: insert(e) with index i on child list L leaves L with e at position i and
\* index i + 1.
C2_Insert ==
    (last.op = "insert" /\ last.idx <= Len(last.children)) =>
        /\ children = InsertAt(last.children, last.idx, last.added[1])
        /\ idx = last.idx + 1

\* C3: with_scratch(f) with index i runs f, then puts the k elements f appended
\* at positions i .. i+k-1 in append order; the index is i + k, the scratch
\* list empty and f's result returned.
C3_WithScratch ==
    (last.op = "with_scratch" /\ last.idx <= Len(last.children)) =>
        /\ children = SpliceIn(last.children, last.idx, last.added)
        /\ idx = last.idx + Len(last.added)
        /\ scratch = <<>>
        /\ ret = last.res
        /\ \A k \in Where("push_scratch"), j \in Where("insert_child") : k < j

\* C4: delete(f) with index i < len(L) grants f a cursor on the child at i and
\* removes position i only after f has returned; the index stays i, the children
\* after i move down by one and f's result is returned.
C4_Delete ==
    (last.op = "delete" /\ last.idx < Len(last.children)) =>
        LET L == last.children
            i == last.idx
        IN /\ log[2] = Ev("grant", i, L[i + 1].id, 0)
           /\ panicked => children = L /\ Count("remove_child") = 0
           /\ ~panicked =>
                /\ Where("release") = {Len(log) - 1}
                /\ log[Len(log)] = Ev("remove_child", i, L[i + 1].id, 0)
                /\ Count("remove_child") = 1
                /\ idx = i
                /\ Len(children) = Len(L) - 1
                /\ \A j \in 1..Len(children) :
                       children[j] = IF j <= i THEN L[j] ELSE L[j + 1]
                /\ ret = last.res

C4_Witness ==
    /\ last.op = "delete" /\ ~panicked
    /\ last.idx = 1 /\ Len(last.children) = 3
    /\ children = <<last.children[1], last.children[3]>>

\* C5: mutate(f) with index i grants f a cursor whose index is i, then sets the
\* index to i + 1 and returns f's result; the child list is as it was.
C5_Mutate ==
    last.op = "mutate" =>
        /\ log[2].ev = "grant" /\ log[2].idx = last.idx
        /\ children = last.children
        /\ ~panicked => idx = last.idx + 1 /\ ret = last.res

C5_Witness ==
    /\ last.op = "mutate" /\ ~panicked
    /\ last.idx = 1 /\ idx = 2 /\ Len(children) = 3 /\ ret = 8

\* C6: after every rebuild, each slot whose view kept its shape has, at its
\* index in the child list, the element that was built for it before the
\* rebuild, not a newly built one and not another slot's.
C6_Identity ==
    RebuildDone =>
        \A s \in Slots :
            (seq[s] # Absent /\ next[s] = seq[s]) =>
                /\ Rank(next, s) < Len(children)
                /\ children[Rank(next, s) + 1].slot = s
                /\ children[Rank(next, s) + 1] \in Range(before)

\* The running rebuild removes the view at slot k and changes nothing else.
OnlyRemoves(k) == seq[k] # Absent /\ next = [seq EXCEPT ![k] = Absent]

\* C7: a rebuild that removes position k of a sequence and changes nothing else
\* issues exactly one delete and no insert; the children before k stay in place
\* and those after k move down by one.
C7_Shift ==
    \A k \in Slots :
        (phase = "rebuild" /\ OnlyRemoves(k)) =>
            /\ ~panicked
            /\ pos = NSlots + 1 =>
                  /\ Count("delete") = 1
                  /\ Count("remove_child") = 1
                  /\ Count("insert") + Count("with_scratch") + Count("insert_child") = 0
                  /\ Len(children) = Len(before) - 1
                  /\ \A j \in 1..Len(children) :
                         children[j] = IF j <= Rank(seq, k) THEN before[j] ELSE before[j + 1]

\* C8: rebuilding a built sequence against an identical copy of itself issues
\* mutate once per position, at index 0, 1, ..., n-1 in that order, issues no
\* insert, with_scratch insertion or delete, and leaves the child list as it was.
C8_NoOpRebuild ==
    (phase = "rebuild" /\ next = seq) =>
        /\ ~panicked
        /\ Count("insert") + Count("insert_child") + Count("delete")
              + Count("remove_child") = 0
        /\ children = before
        /\ pos = NSlots + 1 =>
              /\ Count("mutate") = Cardinality(Present(seq))
              /\ \A k \in Where("mutate") :
                     log[k].idx = Cardinality({j \in Where("mutate") : j < k})
              /\ \A k, j \in Where("mutate") : k < j => log[k].slot < log[j].slot

\* C9: Stack::teardown runs the teardown of each of the n children exactly once,
\* in position order, each on that child's own element, and no element is
\* removed from the container before its child's teardown has run.
C9_Teardown ==
    phase = "teardown" =>
        /\ ~panicked
        /\ \A k \in Where("teardown") :
               /\ log[k].elem \in 1..Len(before)
               /\ before[log[k].elem].slot = log[k].slot
        /\ \A j \in Where("remove_child") :
               \E k \in Where("teardown") : k < j /\ log[k].elem = log[j].elem
        /\ pos = NSlots + 1 =>
              /\ \A s \in Present(seq) :
                     Cardinality({k \in Where("teardown") : log[k].slot = s}) = 1
              /\ Count("teardown") = Cardinality(Present(seq))
              /\ \A k, j \in Where("teardown") : k < j => log[k].slot < log[j].slot

\* C10: when seq_rebuild or seq_teardown has returned, the scratch buffer is
\* empty, whatever operations the pass issued: the debug assertions hold.
C10_ScratchEmpty ==
    (phase \in {"rebuild", "teardown"} /\ pos = NSlots + 1) =>
        scratch = <<>> /\ ~panicked

C10_Witness ==
    /\ RebuildDone
    /\ Count("with_scratch") >= 2
    /\ Count("delete") >= 1
    /\ scratch = <<>>

\* C11: the index of a splice is 0 when the splice is created, and no operation
\* (insert, with_scratch, mutate, skip, delete) leaves it below the value it had
\* when the operation was called.
C11_Monotonic ==
    /\ []((phase = "splice" /\ last.op = "none") => idx = 0)
    /\ [][phase' = "splice" => idx' >= idx /\ last'.idx = idx]_vars

C11_Witness ==
    /\ last.op = "delete" /\ ~panicked
    /\ last.idx = 2 /\ idx = 2

\* C12: mutate or delete called with the index out of range of the children, or
\* with a callback that expects another widget type than the child's, panics:
\* the operation does not return and the splice is left as it was.  This holds
\* for a callback that takes a Pod<W> and for one that takes a ZStackElement.
C12_FailLoudly ==
    last.op \in {"mutate", "delete"} =>
        LET child == child_mut(last.children, last.idx)
        IN (child = None \/ (last.kind = "Pod" /\ child.shape # last.W)) =>
              /\ panicked
              /\ idx = last.idx
              /\ children = last.children

\* The first segment of the last message's path names a slot that holds a view
\* and carries the id that view was given.
Addressed == /\ msg.id_path # <<>>
             /\ view_state[msg.id_path[1].slot] # NoState
             /\ view_state[msg.id_path[1].slot].id = msg.id_path[1].id

MessageStep == phase = "idle" /\ phase' = "idle"

\* C13: a message whose path points at an existing position i is handed exactly
\* once to position i's view, with the rest of the path, the payload and the
\* application state as Stack::message received them, and the result of that
\* view is what Stack::message returns; no other position's view state changes.
C13_Delivery ==
    /\ [](Addressed =>
            /\ Len(msg.delivered) = 1
            /\ msg.delivered[1].slot = msg.id_path[1].slot
            /\ msg.delivered[1].id_path = Tail(msg.id_path)
            /\ msg.delivered[1].message = msg.message
            /\ msg.result = msg.delivered[1].result)
    /\ [][(MessageStep /\ Addressed') =>
            /\ msg'.delivered[1].app = app_state
            /\ \A s \in Slots \ {msg'.id_path[1].slot} :
                   view_state'[s] = view_state[s]]_vars

C13_Witness ==
    /\ msg.id_path = <<[slot |-> 2, id |-> "live"]>>
    /\ msg.result = Action("key")
    /\ view_state[2].handled /\ app_state = "key"
    /\ view_state[1] # NoState /\ ~view_state[1].handled

\* C14: a message whose path addresses no existing position (the slot holds no
\* view, the id is a released one, or the path goes on below a view without
\* children) returns Stale; nothing panics and the application state, every
\* view state and the child list are as they were.
C14_Stale ==
    /\ []((msg.id_path # <<>> /\ ~(Addressed /\ Len(msg.id_path) = 1)) =>
            msg.result = Stale /\ ~panicked)
    /\ [][(MessageStep /\ ~(Addressed' /\ Len(msg'.id_path) = 1)) =>
            /\ view_state' = view_state
            /\ app_state' = app_state
            /\ children' = children]_vars

C14_Witness ==
    /\ seq[2] = Absent
    /\ msg.id_path = <<[slot |-> 2, id |-> "live"]>>
    /\ msg.result = Stale
    /\ view_state[1].handled /\ app_state = "click"
    /\ Len(children) = 2

\* C15: Stack::build leaves a container whose children are the elements that
\* seq_build produced: one for each position that holds a view, in the order of
\* the positions, each of the widget type of its view, none twice.
C15_Build ==
    [][phase = "new" =>
        /\ Len(children') = Cardinality(Present(seq))
        /\ Len(log') = Len(children')
        /\ \A j \in 1..Len(children') :
               /\ log'[j].ev = "build"
               /\ children'[j].id = log'[j].elem
               /\ children'[j].slot = log'[j].slot
               /\ children'[j].slot \in Present(seq)
               /\ Rank(seq, children'[j].slot) = j - 1
               /\ children'[j].shape = seq[children'[j].slot]
        /\ \A j, k \in 1..Len(children') :
               children'[j].id = children'[k].id => j = k]_vars

C15_Witness ==
    /\ phase = "idle" /\ Count("build") = 2
    /\ seq[2] = Absent
    /\ Len(children) = 2
    /\ children[1].slot = 1 /\ children[2].slot = 3
    /\ children[1].shape = seq[1] /\ children[2].shape = seq[3]

\* C16: skip(n) with index i leaves the index at i + n and nothing else changed:
\* no cursor is granted, no callback runs, no child is inserted or removed, the
\* child list and the scratch list are as they were, and it does not panic.
C16_Skip ==
    last.op = "skip" =>
        /\ idx = last.idx + last.res
        /\ children = last.children
        /\ scratch = last.scratch
        /\ log = <<Ev("skip", last.idx, 0, 0)>>
        /\ ~panicked

C16_Witness ==
    /\ last.op = "skip" /\ last.res = 2
    /\ last.idx = 1 /\ idx = 3
    /\ Len(children) = 3

\* Of the first n events of the pass, those in the set of positions S.
Upto(S, n) == Cardinality({k \in S : k <= n})

\* C17: during a rebuild or teardown pass at most one cursor is out at any
\* point: a cursor is granted only when none is out, the cursor of a callback
\* that returns is released right after the callback's own events, no child is
\* removed while a cursor is out, and none is out when an operation has returned
\* and the index has advanced.
C17_OneCursor ==
    phase \in {"rebuild", "teardown"} =>
        LET G == Where("grant")
            R == Where("release")
        IN /\ \A n \in G \cup R :
                  Upto(R, n) <= Upto(G, n) /\ Upto(G, n) <= Upto(R, n) + 1
           /\ \A k \in G : Upto(G, k - 1) = Upto(R, k - 1)
           /\ \A k \in Where("remove_child") : Upto(G, k) = Upto(R, k)
           /\ \A k \in R :
                  /\ k > 2
                  /\ log[k - 1].ev \in {"rebuild", "teardown"}
                  /\ log[k - 2].ev = "grant"
           /\ ~panicked => Cardinality(G) = Cardinality(R)

C17_Witness ==
    /\ RebuildDone
    /\ Count("grant") = 3 /\ Count("release") = 3
    /\ Count("mutate") = 2 /\ Count("remove_child") = 1

\* C18: in every rebuild, each cursor that mutate or delete grants for the view
\* at a slot is a cursor on the element that was built for that slot: one that
\* was a child when the pass started or was built during it, never no element
\* and never the element of another slot.
C18_Correspondence ==
    phase = "rebuild" =>
        \A k \in Where("grant") :
            \E e \in Range(before) \cup Range(children) :
                e.id = log[k].elem /\ e.slot = log[k].slot

\* C19: in every state of a rebuild or teardown pass over a built sequence the
\* splice index is at least 0 and at most the number of children; when a
\* rebuild pass is complete the index is the number of children, which is the
\* number of views of the new sequence.
C19_IndexInRange ==
    /\ phase \in {"rebuild", "teardown"} => idx \in 0..Len(children)
    /\ RebuildDone =>
          /\ idx = Len(children)
          /\ Len(children) = Cardinality(Present(next))

C19_Witness ==
    /\ RebuildDone
    /\ Count("with_scratch") = 1 /\ Count("delete") = 1 /\ Count("mutate") = 1
    /\ idx = 2 /\ Len(children) = 2

====
